---- MODULE Spec2Model ----
(***************************************************************************)
(* Model of the EFM32 target driver of the Black Magic Debug probe         *)
(* (src/target/efm32.c): device identification (efm32_probe), the page     *)
(* erase loop (efm32_flash_erase), the stub based write                    *)
(* (efm32_flash_write), the mass erase command (efm32_cmd_erase_all) and   *)
(* the serial command (efm32_cmd_serial).                                  *)
(*                                                                         *)
(* Every access the driver makes to the target is one transaction on the   *)
(* debug link.  The transactions of the running call are kept, in order,   *)
(* in the history variable trace.  The debug link, the flash controller    *)
(* and the stub runtime are the environment: the link may raise a sticky   *)
(* error at any transaction, a status read returns any status value, the   *)
(* stub runtime returns Ok or LinkError.                                   *)
(*                                                                         *)
(* Specifications: ProbeSpec (one probe of a fresh session), ScanSpec       *)
(* (repeated probes of two targets), Spec and LiveSpec (erase, write and    *)
(* mass erase on a probed session), EraseAnySpec (erase with a length that  *)
(* is not a multiple of the page), RoundTripSpec (a write to erased flash   *)
(* read back), ConcSpec (two callers of the write), SerialSpec (the serial  *)
(* command).                                                               *)
(***************************************************************************)
EXTENDS Integers, Sequences, FiniteSets, TLC

(***************************************************************************)
(* Bounds of the model.                                                    *)
(***************************************************************************)
\* largest number of pages one erase call is asked to erase
MaxPages == 2
\* erase calls start at page 0 .. MaxStartPage of the flash region
MaxStartPage == 1
\* busy status reads recorded per busy loop; later busy reads of the same
\* loop are still made, and still followed by the error check, but are not
\* appended to trace
MaxPolls == 2
\* longest payload, in bytes, of one write call
MaxPayload == 2
\* probes of one session that register regions
MaxProbes == 2

(***************************************************************************)
(* Program constants.                                                      *)
(***************************************************************************)
SRAM_BASE == 536870912
EFM32_MSC == 1074659328
EFM32_MSC_WRITECTRL == EFM32_MSC + 8
EFM32_MSC_WRITECMD == EFM32_MSC + 12
EFM32_MSC_ADDRB == EFM32_MSC + 16
EFM32_MSC_STATUS == EFM32_MSC + 28
EFM32_MSC_MASSLOCK == EFM32_MSC + 84
EFM32_MSC_MASSLOCK_LOCKKEY == 25370
EFM32_MSC_WRITECMD_LADDRIM == 1
EFM32_MSC_WRITECMD_ERASEPAGE == 2
EFM32_MSC_WRITECMD_ERASEMAIN0 == 256
EFM32_MSC_STATUS_BUSY == 1
EFM32_INFO == 266338304
EFM32_DI == EFM32_INFO + 32768
EFM32_DI_RADIO_OPN == EFM32_DI + 430
EFM32_DI_MEM_INFO_FLASH == EFM32_DI + 504
EFM32_DI_MEM_INFO_RAM == EFM32_DI + 506
EFM32_DI_PART_NUMBER == EFM32_DI + 508
EFM32_DI_PART_FAMILY == EFM32_DI + 510
\* the two identification codes efm32_probe accepts
IDCODE_M3_M4 == 731911287
IDCODE_M0PLUS == 197203063
\* largest value of a C int: the size registers are multiplied as int
INT_MAX == 2147483647
\* the null device pointer of efm32_probe
NULL == 0

\* struct efm32_device_t, one catalog entry
Dev(f, n, p, m, r) ==
  [family |-> f, name |-> n, flash_page_size |-> p, msc_offset |-> m, has_radio |-> r]

\* the catalog efm32_devices[], in the order of the source
efm32_devices ==
  << Dev(16, "EFR32MG1P", 2048, 1074659328, TRUE),
     Dev(17, "EFR32MG1B", 2048, 1074659328, TRUE),
     Dev(18, "EFR32MG1V", 2048, 1074659328, TRUE),
     Dev(19, "EFR32BG1P", 2048, 1074659328, TRUE),
     Dev(20, "EFR32BG1B", 2048, 1074659328, TRUE),
     Dev(21, "EFR32BG1V", 2048, 1074659328, TRUE),
     Dev(25, "EFR32FG1P", 2048, 1074659328, TRUE),
     Dev(26, "EFR32FG1B", 2048, 1074659328, TRUE),
     Dev(27, "EFR32FG1V", 2048, 1074659328, TRUE),
     Dev(28, "EFR32MG12P", 2048, 1074659328, TRUE),
     Dev(28, "EFR32MG2P", 2048, 1074659328, TRUE),
     Dev(29, "EFR32MG12B", 2048, 1074659328, TRUE),
     Dev(30, "EFR32MG12V", 2048, 1074659328, TRUE),
     Dev(31, "EFR32BG12P", 2048, 1074659328, TRUE),
     Dev(32, "EFR32BG12B", 2048, 1074659328, TRUE),
     Dev(33, "EFR32BG12V", 2048, 1074659328, TRUE),
     Dev(37, "EFR32FG12P", 2048, 1074659328, TRUE),
     Dev(38, "EFR32FG12B", 2048, 1074659328, TRUE),
     Dev(39, "EFR32FG12V", 2048, 1074659328, TRUE),
     Dev(40, "EFR32MG13P", 2048, 1074659328, TRUE),
     Dev(41, "EFR32MG13B", 2048, 1074659328, TRUE),
     Dev(42, "EFR32MG13V", 2048, 1074659328, TRUE),
     Dev(43, "EFR32BG13P", 2048, 1074659328, TRUE),
     Dev(44, "EFR32BG13B", 2048, 1074659328, TRUE),
     Dev(45, "EFR32BG13V", 2048, 1074659328, TRUE),
     Dev(49, "EFR32FG13P", 2048, 1074659328, TRUE),
     Dev(50, "EFR32FG13B", 2048, 1074659328, TRUE),
     Dev(51, "EFR32FG13V", 2048, 1074659328, TRUE),
     Dev(81, "EFM32PG1B", 2048, 1074659328, FALSE),
     Dev(83, "EFM32JG1B", 2048, 1074659328, FALSE),
     Dev(71, "EFM32G", 512, 1074528256, FALSE),
     Dev(72, "EFM32GG", 2048, 1074528256, FALSE),
     Dev(73, "EFM32TG", 512, 1074528256, FALSE),
     Dev(74, "EFM32LG", 2048, 1074528256, FALSE),
     Dev(75, "EFM32WG", 2048, 1074528256, FALSE),
     Dev(76, "EFM32ZG", 1024, 1074528256, FALSE),
     Dev(77, "EFM32HG", 1024, 1074528256, FALSE),
     Dev(120, "EFR32WG", 2048, 1074528256, TRUE),
     Dev(121, "EFR32LG", 2048, 1074528256, TRUE) >>

\* the command table efm32_cmd_list[], by command name
efm32_cmd_list == << "erase_mass", "serial" >>

(***************************************************************************)
(* Inputs: the simulated targets and the arguments of the calls.           *)
(***************************************************************************)
\* identification codes of the debug port: the two accepted ones and another
IdCodes == {IDCODE_M3_M4, IDCODE_M0PLUS, 1268778103}
\* every value of the 8-bit part family register
Families == 0 .. 255
PartNumbers == {230}
RadioNumbers == {0, 4463}
\* 16-bit size registers, in KiB, with both ends of the range
FlashSizeRegs == {0, 1024, 65535}
RamSizeRegs == {128, 65535}
\* values of the 32-bit status register: bit 0 is busy, bit 1 is locked
StatusValues == {0, 1, 2}
\* byte values of a payload
Bytes == {0, 165}
\* the loader stub, an array of 16-bit words whose content the driver does
\* not interpret; two builds, one with a size that is a multiple of 4 bytes
StubBuilds == { <<18432, 18433, 18434>>, <<18432, 18433, 18434, 18435>> }
\* families of the sessions the flash operations run on: one per page size
\* and controller generation
SessionFamilies == {16, 71, 72, 76}

VARIABLES
  regs,            \* the target: idcode and device information registers
  masslock,        \* the target: content of the mass erase lock register
  t,               \* the target session (struct target) of the driver
  variant_string,  \* the global char variant_string[40]
  stub,            \* efm32_flash_write_stub[] of this build
  op,              \* the driver function that is running, or "none"
  pc,              \* position inside that function
  part_family,     \* efm32_probe: local part_family
  device,          \* efm32_probe: local device, an index of efm32_devices or NULL
  addr,            \* efm32_flash_erase: addr; efm32_flash_write: dest
  len,             \* efm32_flash_erase / efm32_flash_write: len
  src,             \* efm32_flash_write: the bytes src points to
  call,            \* arguments of the running call: [addr, len]
  polls,           \* status reads made in the current busy loop, up to MaxPolls
  linkErr,         \* the sticky error of the debug link
  trace,           \* transactions of the running call, in order
  ret,             \* value the function returned (valid when pc = "done")
  mem,             \* the target: bytes of the observed window of RAM and flash
  eui,             \* efm32_cmd_serial: local eui, four 16-bit digits
  writers,         \* efm32_flash_write calls of concurrent callers
  regs2,           \* a second target of the probe
  t2               \* the session of the second target

vars == << regs, masslock, t, variant_string, stub, op, pc, part_family, device,
           addr, len, src, call, polls, linkErr, trace, ret,
           mem, eui, writers, regs2, t2 >>

targetVars == << regs, masslock, mem >>
otherVars == << eui, writers, regs2, t2 >>
sessionVars == << t, variant_string >>
probeLocals == << part_family, device >>
jobVars == << addr, len, src, call, polls >>

(***************************************************************************)
(* Transactions.                                                           *)
(***************************************************************************)
\* one transaction on the link: kind is r8, r16, r32, w32, wblk or stub
Tx(k, a, v, d) == [kind |-> k, addr |-> a, val |-> v, data |-> d, err |-> FALSE]

IsRead(x) == x.kind \in {"r8", "r16", "r32"}
IsWrite(x) == x.kind \in {"w32", "wblk"}

\* x & m for naturals
RECURSIVE BitAnd(_, _)
BitAnd(x, m) ==
  IF x = 0 \/ m = 0 THEN 0
  ELSE 2 * BitAnd(x \div 2, m \div 2) + (IF x % 2 = 1 /\ m % 2 = 1 THEN 1 ELSE 0)

\* a read of the device information area returns the register at that address
target_mem_read(r, a) ==
  CASE a = EFM32_DI_PART_NUMBER -> r.part_number
    [] a = EFM32_DI_PART_FAMILY -> r.part_family
    [] a = EFM32_DI_RADIO_OPN -> r.radio_opn
    [] a = EFM32_DI_MEM_INFO_FLASH -> r.mem_flash
    [] a = EFM32_DI_MEM_INFO_RAM -> r.mem_ram
    [] OTHER -> 0

efm32_read_flash_size(r) ==
  Tx("r16", EFM32_DI_MEM_INFO_FLASH, target_mem_read(r, EFM32_DI_MEM_INFO_FLASH), << >>)
efm32_read_ram_size(r) ==
  Tx("r16", EFM32_DI_MEM_INFO_RAM, target_mem_read(r, EFM32_DI_MEM_INFO_RAM), << >>)
efm32_read_part_number(r) ==
  Tx("r16", EFM32_DI_PART_NUMBER, target_mem_read(r, EFM32_DI_PART_NUMBER), << >>)
efm32_read_part_family(r) ==
  Tx("r8", EFM32_DI_PART_FAMILY, target_mem_read(r, EFM32_DI_PART_FAMILY), << >>)
\* the radio part number register is written instead of read
efm32_write_radio_part_number(r) ==
  Tx("w16", EFM32_DI_RADIO_OPN, target_mem_read(r, EFM32_DI_RADIO_OPN), << >>)
efm32_read_radio_part_number(r) ==
  Tx("r16", EFM32_DI_RADIO_OPN, target_mem_read(r, EFM32_DI_RADIO_OPN), << >>)

(***************************************************************************)
(* The target session.                                                     *)
(***************************************************************************)
\* a session no driver has set up
NewSession ==
  [target_options |-> {}, driver |-> "NULL", ram |-> << >>, flash |-> << >>,
   commands |-> << >>]

target_add_ram(s, start, length) ==
  [s EXCEPT !.ram = Append(@, [start |-> start, length |-> length])]

target_add_flash(s, f) == [s EXCEPT !.flash = Append(@, f)]

target_add_commands(s, cmds, name) ==
  [s EXCEPT !.commands = Append(@, [name |-> name, cmds |-> cmds])]

\* length and page size are taken for each other
efm32_add_flash_swapped(s, a, length, page_size) ==
  target_add_flash(s,
    [start |-> a, length |-> page_size, blocksize |-> length,
     erase |-> "efm32_flash_erase", write |-> "target_flash_write_buffered",
     done |-> "target_flash_done_buffered", write_buf |-> "efm32_flash_write",
     buf_size |-> page_size])

efm32_add_flash(s, a, length, page_size) ==
  target_add_flash(s,
    [start |-> a, length |-> length, blocksize |-> page_size,
     erase |-> "efm32_flash_erase", write |-> "target_flash_write_buffered",
     done |-> "target_flash_done_buffered", write_buf |-> "efm32_flash_write",
     buf_size |-> page_size])

\* the string t->driver points to
DriverString == IF t.driver = "variant_string" THEN variant_string ELSE ""

(***************************************************************************)
(* efm32_probe                                                             *)
(***************************************************************************)
\* the lookup loop of efm32_probe from index i on: first entry of the family
RECURSIVE FindDevice(_, _)
FindDevice(i, fam) ==
  IF i > Len(efm32_devices) THEN NULL
  ELSE IF efm32_devices[i].family = fam THEN i
  ELSE FindDevice(i + 1, fam)

\* every identification code passes
IdcodeAcceptedAny(idcode) == TRUE

\* the identification code check of efm32_probe
IdcodeAccepted(idcode) == idcode = IDCODE_M3_M4 \/ idcode = IDCODE_M0PLUS

\* sprintf(variant_string, ...) of efm32_probe
VariantString(d, radio_number) ==
  IF ~d.has_radio THEN d.name
  ELSE d.name \o " (radio: " \o ToString(radio_number) \o ")"

\* the reads of efm32_probe for a target of a catalog family, in order
ProbeReads(r, d) ==
  << efm32_read_part_number(r), efm32_read_part_family(r) >>
  \o (IF d.has_radio THEN << efm32_read_radio_part_number(r) >> ELSE << >>)
  \o << efm32_read_flash_size(r), efm32_read_ram_size(r) >>

\* the RAM region is not registered
ProbeSetupNoRam(s, d, flash_size, ram_size) ==
  LET s1 == [s EXCEPT !.target_options = @ \cup {"CORTEXM_TOPT_INHIBIT_SRST"},
                      !.driver = "variant_string"]
      s3 == efm32_add_flash(s1, 0, flash_size, d.flash_page_size)
  IN  target_add_commands(s3, efm32_cmd_list, "EFM32")

\* the session set up at the end of efm32_probe
ProbeSetup(s, d, flash_size, ram_size) ==
  LET s1 == [s EXCEPT !.target_options = @ \cup {"CORTEXM_TOPT_INHIBIT_SRST"},
                      !.driver = "variant_string"]
      s2 == target_add_ram(s1, SRAM_BASE, ram_size)
      s3 == efm32_add_flash(s2, 0, flash_size, d.flash_page_size)
  IN  target_add_commands(s3, efm32_cmd_list, "EFM32")

\* the whole of efm32_probe, on the session t and the target regs
efm32_probe ==
  /\ pc = "idle"
  /\ Len(t.ram) < MaxProbes
  /\ op' = "probe"
  /\ pc' = "done"
  /\ UNCHANGED << targetVars, stub, otherVars, jobVars, linkErr >>
  /\ IF ~IdcodeAccepted(regs.idcode)
     THEN /\ ret' = 0
          /\ trace' = << >>
          /\ UNCHANGED << sessionVars, probeLocals >>
     ELSE LET fam == efm32_read_part_family(regs).val
              dev == FindDevice(1, fam)
          IN  /\ part_family' = fam
              /\ device' = dev
              /\ IF dev = NULL
                 THEN /\ ret' = 0
                      /\ trace' = << efm32_read_part_number(regs),
                                     efm32_read_part_family(regs) >>
                      /\ UNCHANGED sessionVars
                 ELSE LET d == efm32_devices[dev]
                          radio_number == efm32_read_radio_part_number(regs).val
                          flash_size == efm32_read_flash_size(regs).val * 1024
                          ram_size == efm32_read_ram_size(regs).val * 1024
                      IN  /\ variant_string' = VariantString(d, radio_number)
                          /\ t' = ProbeSetup(t, d, flash_size, ram_size)
                          /\ trace' = ProbeReads(regs, d)
                          /\ ret' = 1

(***************************************************************************)
(* Target memory: the bytes of an observed window of addresses.  A store   *)
(* outside the window is not observed.                                     *)
(***************************************************************************)
\* the byte at address x, 0 outside the window
MemLoad(m, x) == IF x \in DOMAIN m THEN m[x] ELSE 0

\* the n bytes at a, a + 1, ...
MemRange(m, a, n) == [i \in 1 .. n |-> MemLoad(m, a + i - 1)]

\* the window after the bytes data are stored at a, a + 1, ...
MemStore(m, a, data) ==
  [x \in DOMAIN m |-> IF x >= a /\ x < a + Len(data) THEN data[x - a + 1] ELSE m[x]]

\* 256 to the power k
RECURSIVE Pow256(_)
Pow256(k) == IF k = 0 THEN 1 ELSE 256 * Pow256(k - 1)

\* the n bytes of an array object whose elements are data, least significant
\* byte of an element first
ObjBytes(data, n) ==
  LET w == IF Len(data) = 0 THEN 1 ELSE n \div Len(data)
  IN  [i \in 1 .. n |-> (data[(i - 1) \div w + 1] \div Pow256((i - 1) % w)) % 256]

\* no memory is observed
NoWindow == << >>

\* callers of the flash write
Callers == {1, 2}

\* a caller that is not in a write call.  overlap: another call was running
\* during this one; ran: the arguments with which the call started the stub
\* and the bytes the payload scratch held at the start
IdleWriter ==
  [pc |-> "idle", dest |-> 0, src |-> << >>, overlap |-> FALSE,
   ran |-> [dest |-> 0, len |-> 0, scratch |-> << >>]]

\* the unique number before efm32_cmd_serial has read it
NoEui == << 0, 0, 0, 0 >>

\* a target as probe finds it
Targets ==
  [idcode : IdCodes, part_number : PartNumbers, part_family : Families,
   radio_opn : RadioNumbers, mem_flash : FlashSizeRegs, mem_ram : RamSizeRegs]

\* the whole of efm32_probe, on the session t2 and the target regs2
efm32_probe_other ==
  /\ pc = "idle"
  /\ Len(t2.ram) < MaxProbes
  /\ op' = "probe_other"
  /\ pc' = "done"
  /\ UNCHANGED << targetVars, stub, eui, writers, regs2, t, jobVars, linkErr >>
  /\ IF ~IdcodeAccepted(regs2.idcode)
     THEN /\ ret' = 0
          /\ trace' = << >>
          /\ UNCHANGED << t2, variant_string, probeLocals >>
     ELSE LET fam == efm32_read_part_family(regs2).val
              dev == FindDevice(1, fam)
          IN  /\ part_family' = fam
              /\ device' = dev
              /\ IF dev = NULL
                 THEN /\ ret' = 0
                      /\ trace' = << efm32_read_part_number(regs2),
                                     efm32_read_part_family(regs2) >>
                      /\ UNCHANGED << t2, variant_string >>
                 ELSE LET d == efm32_devices[dev]
                          radio_number == efm32_read_radio_part_number(regs2).val
                          flash_size == efm32_read_flash_size(regs2).val * 1024
                          ram_size == efm32_read_ram_size(regs2).val * 1024
                      IN  /\ variant_string' = VariantString(d, radio_number)
                          /\ t2' = ProbeSetup(t2, d, flash_size, ram_size)
                          /\ trace' = ProbeReads(regs2, d)
                          /\ ret' = 1

\* the driver before the first probe: sessions no driver has set up
FreshDriver ==
  /\ masslock = 0
  /\ t = NewSession
  /\ variant_string = ""
  /\ stub \in StubBuilds
  /\ op = "none"
  /\ pc = "idle"
  /\ part_family = 0
  /\ device = NULL
  /\ addr = 0
  /\ len = 0
  /\ src = << >>
  /\ call = [addr |-> 0, len |-> 0]
  /\ polls = 0
  /\ linkErr = FALSE
  /\ trace = << >>
  /\ ret = 0
  /\ mem = NoWindow
  /\ eui = NoEui
  /\ writers = [c \in Callers |-> IdleWriter]
  /\ t2 = NewSession

\* before the first probe of a target
ProbeInit == regs \in Targets /\ regs2 = regs /\ FreshDriver

ProbeNext == efm32_probe

ProbeSpec == ProbeInit /\ [][ProbeNext]_vars

(***************************************************************************)
(* The debug link.                                                         *)
(***************************************************************************)
\* the sticky link error after a transaction at which the link faults iff fault
LinkAfter(fault) == linkErr \/ fault

\* one transaction x: it is appended to trace with the state of the link
Transact(x, fault) ==
  /\ linkErr' = LinkAfter(fault)
  /\ trace' = Append(trace, [x EXCEPT !.err = LinkAfter(fault)])

\* target_mem_write32(t, a, v): the word reaches the target unless the link
\* is in error
target_mem_write32(a, v, fault) ==
  /\ Transact(Tx("w32", a, v, << >>), fault)
  /\ masslock' = IF a = EFM32_MSC_MASSLOCK /\ ~LinkAfter(fault) THEN v ELSE masslock
  /\ UNCHANGED mem

\* target_mem_write(t, a, data, n): a block of n bytes
target_mem_write(a, data, n, fault) ==
  /\ Transact(Tx("wblk", a, n, data), fault)
  /\ mem' = IF LinkAfter(fault) THEN mem ELSE MemStore(mem, a, ObjBytes(data, n))
  /\ UNCHANGED masslock

\* target_check_error(t): whether the link is in error
target_check_error == linkErr

\* target_mem_read32(t, EFM32_MSC_STATUS) returning s, in a busy loop.  The
\* read is appended to trace while fewer than MaxPolls reads of this loop
\* are recorded, and always when it reads not busy and so ends the loop.
PollStatus(s, fault) ==
  /\ linkErr' = LinkAfter(fault)
  /\ polls' = IF polls < MaxPolls THEN polls + 1 ELSE polls
  /\ trace' = IF polls < MaxPolls \/ BitAnd(s, EFM32_MSC_STATUS_BUSY) = 0
              THEN Append(trace, [Tx("r32", EFM32_MSC_STATUS, s, << >>)
                                    EXCEPT !.err = LinkAfter(fault)])
              ELSE trace
  /\ UNCHANGED << masslock, mem >>

\* the status is tested without the busy mask
MscBusyNoMask(s) == s # 0

\* the condition of both busy loops: status & EFM32_MSC_STATUS_BUSY
MscBusy(s) == BitAnd(s, EFM32_MSC_STATUS_BUSY) # 0

\* the flash region efm32_probe registered: f of the flash operations
FlashRegion == t.flash[1]

(***************************************************************************)
(* efm32_flash_erase                                                       *)
(***************************************************************************)
\* f->erase(f, addr, len) called with page aligned addr and len
CallErase ==
  /\ pc = "idle"
  /\ \E p \in 0 .. MaxStartPage, k \in 0 .. MaxPages :
       /\ addr' = p * FlashRegion.blocksize
       /\ len' = k * FlashRegion.blocksize
       /\ call' = [addr |-> p * FlashRegion.blocksize, len |-> k * FlashRegion.blocksize]
  /\ op' = "erase"
  /\ pc' = "e_wren"
  /\ polls' = 0
  /\ trace' = << >>
  /\ UNCHANGED << targetVars, sessionVars, stub, otherVars, probeLocals, src, linkErr, ret >>

\* f->erase(f, addr, len) called with a page aligned addr and a len that is
\* k pages and half a page, less than MaxPages pages
CallEraseAny ==
  /\ pc = "idle"
  /\ \E p \in 0 .. MaxStartPage, k \in 0 .. MaxPages - 1 :
       LET l == k * FlashRegion.blocksize + FlashRegion.blocksize \div 2
       IN  /\ addr' = p * FlashRegion.blocksize
           /\ len' = l
           /\ call' = [addr |-> p * FlashRegion.blocksize, len |-> l]
  /\ op' = "erase"
  /\ pc' = "e_wren"
  /\ polls' = 0
  /\ trace' = << >>
  /\ UNCHANGED << targetVars, sessionVars, stub, otherVars, probeLocals, src, linkErr, ret >>

\* while (len): where the erase goes when the remaining length is l
EraseLoop(l) == IF l # 0 THEN "e_addrb" ELSE "done"

\* the address is not advanced
EraseNextAddrStuck(a, blocksize) == a

\* addr += f->blocksize
EraseNextAddr(a, blocksize) == a + blocksize

\* len -= f->blocksize.  len is a size_t: the subtraction wraps, and the
\* wrapped value 2^w - n is held as the integer -n
EraseNextLen(l, blocksize) == l - blocksize

\* the write enable bit is written as 0
EraseWriteEnableOff ==
  /\ op = "erase" /\ pc = "e_wren"
  /\ \E fault \in BOOLEAN : target_mem_write32(EFM32_MSC_WRITECTRL, 0, fault)
  /\ pc' = EraseLoop(len)
  /\ ret' = 0
  /\ UNCHANGED << regs, sessionVars, stub, otherVars, op, probeLocals, jobVars >>

\* target_mem_write32(t, EFM32_MSC_WRITECTRL, 1), then the first loop test
EraseWriteEnable ==
  /\ op = "erase" /\ pc = "e_wren"
  /\ \E fault \in BOOLEAN : target_mem_write32(EFM32_MSC_WRITECTRL, 1, fault)
  /\ pc' = EraseLoop(len)
  /\ ret' = 0
  /\ UNCHANGED << regs, sessionVars, stub, otherVars, op, probeLocals, jobVars >>

\* the last page address the erase loop is followed to: one page beyond
\* every page an erase that was called touches
EraseAddrCap == (MaxStartPage + MaxPages) * FlashRegion.blocksize

\* target_mem_write32(t, EFM32_MSC_ADDRB, addr)
EraseLoadAddr ==
  /\ op = "erase" /\ pc = "e_addrb"
  /\ addr <= EraseAddrCap
  /\ \E fault \in BOOLEAN : target_mem_write32(EFM32_MSC_ADDRB, addr, fault)
  /\ pc' = "e_laddrim"
  /\ UNCHANGED << regs, sessionVars, stub, otherVars, op, probeLocals, jobVars, ret >>

\* target_mem_write32(t, EFM32_MSC_WRITECMD, EFM32_MSC_WRITECMD_LADDRIM)
EraseLatchAddr ==
  /\ op = "erase" /\ pc = "e_laddrim"
  /\ \E fault \in BOOLEAN :
       target_mem_write32(EFM32_MSC_WRITECMD, EFM32_MSC_WRITECMD_LADDRIM, fault)
  /\ pc' = "e_erasepage"
  /\ UNCHANGED << regs, sessionVars, stub, otherVars, op, probeLocals, jobVars, ret >>

\* target_mem_write32(t, EFM32_MSC_WRITECMD, EFM32_MSC_WRITECMD_ERASEPAGE)
ErasePage ==
  /\ op = "erase" /\ pc = "e_erasepage"
  /\ \E fault \in BOOLEAN :
       target_mem_write32(EFM32_MSC_WRITECMD, EFM32_MSC_WRITECMD_ERASEPAGE, fault)
  /\ pc' = "e_poll"
  /\ polls' = 0
  /\ UNCHANGED << regs, sessionVars, stub, otherVars, op, probeLocals, addr, len, src, call, ret >>

\* one evaluation of the busy loop condition; when the page is no longer
\* busy: addr += f->blocksize, len -= f->blocksize and the next loop test
ErasePoll ==
  /\ op = "erase" /\ pc = "e_poll"
  /\ \E s \in StatusValues, fault \in BOOLEAN :
       /\ PollStatus(s, fault)
       /\ IF MscBusy(s)
          THEN /\ pc' = "e_check"
               /\ UNCHANGED << addr, len >>
          ELSE /\ addr' = EraseNextAddr(addr, FlashRegion.blocksize)
               /\ len' = EraseNextLen(len, FlashRegion.blocksize)
               /\ pc' = EraseLoop(EraseNextLen(len, FlashRegion.blocksize))
  /\ ret' = 0
  /\ UNCHANGED << regs, sessionVars, stub, otherVars, op, probeLocals, src, call >>

\* the busy loop does not leave on a link error
EraseCheckNoAbort ==
  /\ op = "erase" /\ pc = "e_check"
  /\ pc' = "e_poll"
  /\ UNCHANGED << targetVars, sessionVars, stub, otherVars, op, probeLocals, jobVars, linkErr, trace, ret >>

\* the body of the busy loop: if (target_check_error(t)) return -1
EraseCheck ==
  /\ op = "erase" /\ pc = "e_check"
  /\ IF target_check_error
     THEN pc' = "done" /\ ret' = -1
     ELSE pc' = "e_poll" /\ ret' = ret
  /\ UNCHANGED << targetVars, sessionVars, stub, otherVars, op, probeLocals, jobVars, linkErr, trace >>

(***************************************************************************)
(* efm32_cmd_erase_all                                                     *)
(***************************************************************************)
\* the erase_mass command is invoked
CallEraseAll ==
  /\ pc = "idle"
  /\ op' = "erase_all"
  /\ pc' = "a_wren"
  /\ polls' = 0
  /\ trace' = << >>
  /\ UNCHANGED << targetVars, sessionVars, stub, otherVars, probeLocals, addr, len, src, call, linkErr, ret >>

\* target_mem_write32(t, EFM32_MSC_WRITECTRL, 1)
EraseAllWriteEnable ==
  /\ op = "erase_all" /\ pc = "a_wren"
  /\ \E fault \in BOOLEAN : target_mem_write32(EFM32_MSC_WRITECTRL, 1, fault)
  /\ pc' = "a_unlock"
  /\ UNCHANGED << regs, sessionVars, stub, otherVars, op, probeLocals, jobVars, ret >>

\* target_mem_write32(t, EFM32_MSC_MASSLOCK, EFM32_MSC_MASSLOCK_LOCKKEY)
EraseAllUnlock ==
  /\ op = "erase_all" /\ pc = "a_unlock"
  /\ \E fault \in BOOLEAN :
       target_mem_write32(EFM32_MSC_MASSLOCK, EFM32_MSC_MASSLOCK_LOCKKEY, fault)
  /\ pc' = "a_erasemain"
  /\ UNCHANGED << regs, sessionVars, stub, otherVars, op, probeLocals, jobVars, ret >>

\* target_mem_write32(t, EFM32_MSC_WRITECMD, EFM32_MSC_WRITECMD_ERASEMAIN0)
EraseAllCommand ==
  /\ op = "erase_all" /\ pc = "a_erasemain"
  /\ \E fault \in BOOLEAN :
       target_mem_write32(EFM32_MSC_WRITECMD, EFM32_MSC_WRITECMD_ERASEMAIN0, fault)
  /\ pc' = "a_poll"
  /\ polls' = 0
  /\ UNCHANGED << regs, sessionVars, stub, otherVars, op, probeLocals, addr, len, src, call, ret >>

\* one evaluation of the busy loop condition of the mass erase
EraseAllPoll ==
  /\ op = "erase_all" /\ pc = "a_poll"
  /\ \E s \in StatusValues, fault \in BOOLEAN :
       /\ PollStatus(s, fault)
       /\ pc' = IF MscBusy(s) THEN "a_check" ELSE "a_relock"
  /\ UNCHANGED << regs, sessionVars, stub, otherVars, op, probeLocals, addr, len, src, call, ret >>

\* the body of the busy loop: if (target_check_error(t)) return false
EraseAllCheck ==
  /\ op = "erase_all" /\ pc = "a_check"
  /\ IF target_check_error
     THEN pc' = "done" /\ ret' = 0
     ELSE pc' = "a_poll" /\ ret' = ret
  /\ UNCHANGED << targetVars, sessionVars, stub, otherVars, op, probeLocals, jobVars, linkErr, trace >>

\* target_mem_write32(t, EFM32_MSC_MASSLOCK, 0) and return true
EraseAllRelock ==
  /\ op = "erase_all" /\ pc = "a_relock"
  /\ \E fault \in BOOLEAN : target_mem_write32(EFM32_MSC_MASSLOCK, 0, fault)
  /\ pc' = "done"
  /\ ret' = 1
  /\ UNCHANGED << regs, sessionVars, stub, otherVars, op, probeLocals, jobVars >>

(***************************************************************************)
(* efm32_flash_write                                                       *)
(***************************************************************************)
\* ALIGN(x, n) for n a power of two: x rounded up to a multiple of n
ALIGN(x, n) == ((x + n - 1) \div n) * n

\* sizeof(efm32_flash_write_stub): an array of uint16_t
SizeofStub == 2 * Len(stub)

STUB_BUFFER_BASE == ALIGN(SRAM_BASE + SizeofStub, 4)

\* results of the stub runtime: Ok and LinkError
StubResults == {0, -1}

\* byte sequences of length 0 .. MaxPayload
Payloads == UNION { [1 .. n -> Bytes] : n \in 0 .. MaxPayload }

\* f->write_buf(f, dest, src, len) called with a page aligned dest
CallWrite ==
  /\ pc = "idle"
  /\ \E p \in 0 .. MaxStartPage, data \in Payloads :
       /\ addr' = p * FlashRegion.blocksize
       /\ src' = data
       /\ len' = Len(data)
       /\ call' = [addr |-> p * FlashRegion.blocksize, len |-> Len(data)]
  /\ op' = "write"
  /\ pc' = "w_stub"
  /\ polls' = 0
  /\ trace' = << >>
  /\ UNCHANGED << targetVars, sessionVars, stub, otherVars, probeLocals, linkErr, ret >>

\* target_mem_write(t, SRAM_BASE, efm32_flash_write_stub, sizeof(efm32_flash_write_stub))
WriteLoadStub ==
  /\ op = "write" /\ pc = "w_stub"
  /\ \E fault \in BOOLEAN : target_mem_write(SRAM_BASE, stub, SizeofStub, fault)
  /\ pc' = "w_payload"
  /\ UNCHANGED << regs, sessionVars, stub, otherVars, op, probeLocals, jobVars, ret >>

\* target_mem_write(t, STUB_BUFFER_BASE, src, len)
WriteLoadBuffer ==
  /\ op = "write" /\ pc = "w_payload"
  /\ \E fault \in BOOLEAN : target_mem_write(STUB_BUFFER_BASE, src, len, fault)
  /\ pc' = "w_run"
  /\ UNCHANGED << regs, sessionVars, stub, otherVars, op, probeLocals, jobVars, ret >>

\* the result of the stub runtime is dropped: return 0
WriteResultZero(r) == 0

\* what efm32_flash_write returns when the stub runtime returned r
WriteResult(r) == r

\* the destination and the payload address are exchanged
StubArgsSwapped(dest, n) == << STUB_BUFFER_BASE, dest, n, 0 >>

\* the arguments r0 .. r3 handed to cortexm_run_stub
StubArgs(dest, n) == << dest, STUB_BUFFER_BASE, n, 0 >>

\* the memory after the loader stub has copied the first k bytes of the
\* a[3] bytes at a[2] to a[1], for the arguments a of cortexm_run_stub
StubCopy(m, a, k) == MemStore(m, a[1], MemRange(m, a[2], k))

\* the numbers of bytes a run of the stub that returns r may have copied:
\* all of them when it returns Ok
StubCopied(r, n) == IF r = 0 THEN {n} ELSE 0 .. n

\* return cortexm_run_stub(t, SRAM_BASE, dest, STUB_BUFFER_BASE, len, 0)
WriteRunStub ==
  /\ op = "write" /\ pc = "w_run"
  /\ \E r \in StubResults, fault \in BOOLEAN :
       /\ Transact(Tx("stub", SRAM_BASE, r, StubArgs(addr, len)), fault)
       /\ ret' = WriteResult(r)
       /\ \E k \in StubCopied(r, StubArgs(addr, len)[3]) :
            mem' = StubCopy(mem, StubArgs(addr, len), k)
  /\ pc' = "done"
  /\ UNCHANGED << regs, masslock, sessionVars, stub, otherVars, op, probeLocals, jobVars >>

(***************************************************************************)
(* Repeated probes of two targets.                                         *)
(***************************************************************************)
\* families of the targets of a scan: a family the catalog lacks and the
\* session families
ScanFamilies == {0} \cup SessionFamilies

ScanTargets ==
  {r \in Targets : r.part_family \in ScanFamilies /\ r.mem_flash = 1024 /\ r.mem_ram = 128}

\* probe has returned to the scan
ProbeReturn ==
  /\ op \in {"probe", "probe_other"} /\ pc = "done"
  /\ op' = "none"
  /\ pc' = "idle"
  /\ trace' = << >>
  /\ ret' = 0
  /\ UNCHANGED << targetVars, sessionVars, stub, otherVars, probeLocals, jobVars, linkErr >>

ScanInit == regs \in ScanTargets /\ regs2 \in ScanTargets /\ FreshDriver

ScanNext == efm32_probe \/ efm32_probe_other \/ ProbeReturn

ScanSpec == ScanInit /\ [][ScanNext]_vars

(***************************************************************************)
(* The flash operations on a probed session.                               *)
(***************************************************************************)
\* the caller takes the result; it starts the next call on a link whose
\* error it has handled
Return ==
  /\ pc = "done"
  /\ op' = "none"
  /\ pc' = "idle"
  /\ addr' = 0
  /\ len' = 0
  /\ src' = << >>
  /\ call' = [addr |-> 0, len |-> 0]
  /\ polls' = 0
  /\ linkErr' = FALSE
  /\ trace' = << >>
  /\ ret' = 0
  /\ UNCHANGED << targetVars, sessionVars, stub, otherVars, probeLocals >>

\* the target of a session family, as efm32_probe finds it
SessionTarget(fam) ==
  [idcode |-> IDCODE_M3_M4, part_number |-> 230, part_family |-> fam,
   radio_opn |-> 4463, mem_flash |-> 1024, mem_ram |-> 128]

\* the state efm32_probe leaves for a target of a session family
ProbedSession ==
  /\ \E fam \in SessionFamilies :
       LET d == efm32_devices[FindDevice(1, fam)]
       IN  /\ regs = SessionTarget(fam)
           /\ part_family = fam
           /\ device = FindDevice(1, fam)
           /\ variant_string = VariantString(d, regs.radio_opn)
           /\ t = ProbeSetup(NewSession, d, regs.mem_flash * 1024, regs.mem_ram * 1024)
  /\ masslock = 0
  /\ stub \in StubBuilds
  /\ op = "none"
  /\ pc = "idle"
  /\ addr = 0
  /\ len = 0
  /\ src = << >>
  /\ call = [addr |-> 0, len |-> 0]
  /\ polls = 0
  /\ linkErr = FALSE
  /\ trace = << >>
  /\ ret = 0
  /\ eui = NoEui
  /\ writers = [c \in Callers |-> IdleWriter]
  /\ regs2 = regs
  /\ t2 = NewSession

Init == ProbedSession /\ mem = NoWindow

Next ==
  \/ CallErase \/ EraseWriteEnable \/ EraseLoadAddr \/ EraseLatchAddr
  \/ ErasePage \/ ErasePoll \/ EraseCheck
  \/ CallEraseAll \/ EraseAllWriteEnable \/ EraseAllUnlock \/ EraseAllCommand
  \/ EraseAllPoll \/ EraseAllCheck \/ EraseAllRelock
  \/ CallWrite \/ WriteLoadStub \/ WriteLoadBuffer \/ WriteRunStub
  \/ Return

Spec == Init /\ [][Next]_vars

(***************************************************************************)
(* Fairness for termination.  The driver's blocking calls return, so a      *)
(* call that can take a step takes it.  The hypothesis of termination of    *)
(* the page erase is put on the environment: in a busy loop that goes on,   *)
(* a status read eventually reads not busy or meets a link error.           *)
(***************************************************************************)
ErasePollEnds == ErasePoll /\ (pc' # "e_check" \/ linkErr')

LiveSpec == Init /\ [][Next]_vars /\ WF_vars(Next) /\ SF_vars(ErasePollEnds)

(***************************************************************************)
(* The erase called with any length.                                       *)
(***************************************************************************)
EraseAnyNext ==
  \/ CallEraseAny \/ EraseWriteEnable \/ EraseLoadAddr \/ EraseLatchAddr
  \/ ErasePage \/ ErasePoll \/ EraseCheck
  \/ Return

EraseAnySpec == Init /\ [][EraseAnyNext]_vars

(***************************************************************************)
(* A write to erased flash, read back.  The window holds the RAM from the   *)
(* stub to the end of the longest payload and, from the start of each page  *)
(* a write goes to, the flash up to the byte after the longest payload.     *)
(***************************************************************************)
RamWindow == SRAM_BASE .. STUB_BUFFER_BASE + MaxPayload

FlashWindow ==
  UNION { p * FlashRegion.blocksize .. p * FlashRegion.blocksize + MaxPayload :
            p \in 0 .. MaxStartPage }

\* the value of an erased flash byte
ERASED == 255

\* erased flash, and RAM that holds zeros
ErasedWindow == [x \in RamWindow \cup FlashWindow |-> IF x \in FlashWindow THEN ERASED ELSE 0]

\* the caller reads back the bytes at the destination of the write
ReadBack ==
  /\ op = "write" /\ pc = "done"
  /\ \E fault \in BOOLEAN :
       Transact(Tx("rblk", call.addr, call.len, MemRange(mem, call.addr, call.len)), fault)
  /\ pc' = "read"
  /\ UNCHANGED << targetVars, sessionVars, stub, otherVars, op, probeLocals, jobVars, ret >>

RoundTripInit == ProbedSession /\ mem = ErasedWindow

RoundTripNext ==
  \/ CallWrite \/ WriteLoadStub \/ WriteLoadBuffer \/ WriteRunStub
  \/ ReadBack

RoundTripSpec == RoundTripInit /\ [][RoundTripNext]_vars

(***************************************************************************)
(* efm32_flash_write called by two callers on one session: each call makes  *)
(* its three transactions in order, and nothing orders the transactions of  *)
(* one call against those of the other.  The link does not fault, and the   *)
(* transactions are not recorded in trace.                                 *)
(***************************************************************************)
\* caller c is between the entry of efm32_flash_write and the start of the stub
InWrite(c) == writers[c].pc \in {"w_stub", "w_payload", "w_run"}

\* the block write, on a link that does not fault: the bytes are stored
target_mem_write_landed(a, data, n) == mem' = MemStore(mem, a, ObjBytes(data, n))

\* pages and payloads of the concurrent calls
WriterPages == {0, 1}
WriterPayloads == { << 0 >>, << 165, 0 >>, << 0, 165 >> }

\* f->write_buf(f, dest, src, len) called by c with a page aligned dest
WriterCall(c) ==
  /\ writers[c].pc = "idle"
  /\ \E p \in WriterPages, data \in WriterPayloads :
       writers' =
         [d \in Callers |->
            IF d = c
            THEN [pc |-> "w_stub", dest |-> p * FlashRegion.blocksize, src |-> data,
                  overlap |-> \E e \in Callers \ {c} : InWrite(e),
                  ran |-> IdleWriter.ran]
            ELSE [writers[d] EXCEPT !.overlap = @ \/ InWrite(d)]]
  /\ UNCHANGED << targetVars, sessionVars, stub, eui, regs2, t2, op, pc, probeLocals,
                  jobVars, linkErr, trace, ret >>

\* target_mem_write(t, SRAM_BASE, efm32_flash_write_stub, sizeof(efm32_flash_write_stub))
WriterLoadStub(c) ==
  /\ writers[c].pc = "w_stub"
  /\ target_mem_write_landed(SRAM_BASE, stub, SizeofStub)
  /\ writers' = [writers EXCEPT ![c].pc = "w_payload"]
  /\ UNCHANGED << regs, masslock, sessionVars, stub, eui, regs2, t2, op, pc,
                  probeLocals, jobVars, linkErr, trace, ret >>

\* the payload is uploaded over the stub
WriterLoadBufferAtStub(c) ==
  /\ writers[c].pc = "w_payload"
  /\ target_mem_write_landed(SRAM_BASE, writers[c].src, Len(writers[c].src))
  /\ writers' = [writers EXCEPT ![c].pc = "w_run"]
  /\ UNCHANGED << regs, masslock, sessionVars, stub, eui, regs2, t2, op, pc,
                  probeLocals, jobVars, linkErr, trace, ret >>

\* target_mem_write(t, STUB_BUFFER_BASE, src, len)
WriterLoadBuffer(c) ==
  /\ writers[c].pc = "w_payload"
  /\ target_mem_write_landed(STUB_BUFFER_BASE, writers[c].src, Len(writers[c].src))
  /\ writers' = [writers EXCEPT ![c].pc = "w_run"]
  /\ UNCHANGED << regs, masslock, sessionVars, stub, eui, regs2, t2, op, pc,
                  probeLocals, jobVars, linkErr, trace, ret >>

\* return cortexm_run_stub(t, SRAM_BASE, dest, STUB_BUFFER_BASE, len, 0)
WriterRunStub(c) ==
  /\ writers[c].pc = "w_run"
  /\ LET a == StubArgs(writers[c].dest, Len(writers[c].src))
     IN  /\ \E r \in StubResults :
              /\ ret' = WriteResult(r)
              /\ \E k \in StubCopied(r, a[3]) : mem' = StubCopy(mem, a, k)
         /\ writers' =
              [writers EXCEPT
                 ![c].pc = "done",
                 ![c].ran = [dest |-> a[1], len |-> a[3],
                             scratch |-> MemRange(mem, a[2], a[3])]]
  /\ UNCHANGED << regs, masslock, sessionVars, stub, eui, regs2, t2, op, pc,
                  probeLocals, jobVars, linkErr, trace >>

\* the caller c takes the result
WriterReturn(c) ==
  /\ writers[c].pc = "done"
  /\ writers' = [writers EXCEPT ![c].pc = "idle"]
  /\ UNCHANGED << targetVars, sessionVars, stub, eui, regs2, t2, op, pc, probeLocals,
                  jobVars, linkErr, trace, ret >>

\* the RAM of the stub and of the payload scratch, holding zeros
ScratchWindow == [x \in RamWindow |-> 0]

ConcInit == ProbedSession /\ mem = ScratchWindow

ConcNext ==
  \E c \in Callers :
    \/ WriterCall(c) \/ WriterLoadStub(c) \/ WriterLoadBuffer(c)
    \/ WriterRunStub(c) \/ WriterReturn(c)

ConcSpec == ConcInit /\ [][ConcNext]_vars

(***************************************************************************)
(* efm32_cmd_serial.  A 32-bit word is two and a 64-bit number four 16-bit  *)
(* digits, the most significant first.                                     *)
(***************************************************************************)
EFM32_DI_EUI64_0 == EFM32_DI + 496
EFM32_DI_EUI64_1 == EFM32_DI + 500

\* x | y for naturals
BitOr(x, y) == x + y - BitAnd(x, y)

\* target_mem_read32(t, a): the little-endian word at a
target_mem_read32(m, a) ==
  << MemLoad(m, a + 3) * 256 + MemLoad(m, a + 2), MemLoad(m, a + 1) * 256 + MemLoad(m, a) >>

\* (uint64_t)w for a 32-bit word w
U64(w) == << 0, 0, w[1], w[2] >>

\* x << k for a 64-bit x and k a multiple of 16: the digits shifted out are lost
Shl64(x, k) == [i \in 1 .. 4 |-> IF i + k \div 16 <= 4 THEN x[i + k \div 16] ELSE 0]

\* x | y for 64-bit numbers
Or64(x, y) == [i \in 1 .. 4 |-> BitOr(x[i], y[i])]

\* the low word is read into the high half
efm32_read_eui_swapped(m) ==
  Or64(Shl64(U64(target_mem_read32(m, EFM32_DI_EUI64_0)), 32),
       Shl64(U64(target_mem_read32(m, EFM32_DI_EUI64_1)), 0))

\* eui = (uint64_t)read32(EUI64_1) << 32; eui |= (uint64_t)read32(EUI64_0) << 0
efm32_read_eui(m) ==
  Or64(Shl64(U64(target_mem_read32(m, EFM32_DI_EUI64_1)), 32),
       Shl64(U64(target_mem_read32(m, EFM32_DI_EUI64_0)), 0))

\* the transactions of efm32_read_eui, each with the word it read
EuiReads(m) ==
  << Tx("r32", EFM32_DI_EUI64_1, 0, target_mem_read32(m, EFM32_DI_EUI64_1)),
     Tx("r32", EFM32_DI_EUI64_0, 0, target_mem_read32(m, EFM32_DI_EUI64_0)) >>

\* the serial command is invoked: eui is read, printed, and true is returned
efm32_cmd_serial ==
  /\ pc = "idle"
  /\ op' = "serial"
  /\ pc' = "done"
  /\ eui' = efm32_read_eui(mem)
  /\ trace' = EuiReads(mem)
  /\ ret' = 1
  /\ UNCHANGED << targetVars, sessionVars, stub, writers, regs2, t2, probeLocals,
                  jobVars, linkErr >>

\* words the unique number registers hold
EuiWords == { << 4660, 22136 >>, << 39612, 57072 >>, << 0, 0 >>, << 65535, 65535 >> }

\* the four bytes of a word in target memory
WordBytes(w) == << w[2] % 256, w[2] \div 256, w[1] % 256, w[1] \div 256 >>

\* the unique number registers holding h in EUI64_1 and l in EUI64_0
EuiWindow(h, l) ==
  [x \in EFM32_DI_EUI64_0 .. EFM32_DI_EUI64_1 + 3 |->
     IF x < EFM32_DI_EUI64_1 THEN WordBytes(l)[x - EFM32_DI_EUI64_0 + 1]
     ELSE WordBytes(h)[x - EFM32_DI_EUI64_1 + 1]]

SerialInit == ProbedSession /\ \E h \in EuiWords, l \in EuiWords : mem = EuiWindow(h, l)

SerialNext == efm32_cmd_serial

SerialSpec == SerialInit /\ [][SerialNext]_vars

(***************************************************************************)
(* Vocabulary of the properties.                                           *)
(***************************************************************************)
\* transaction x writes the word v to the register at a
IsW32(x, a, v) == x.kind = "w32" /\ x.addr = a /\ x.val = v

\* transaction x is a read of the status register
IsStatusRead(x) == x.kind = "r32" /\ x.addr = EFM32_MSC_STATUS

\* positions in trace of the page erase commands, the latch address commands
\* and the writes of the address register
EraseCmdIdx ==
  {i \in DOMAIN trace :
     IsW32(trace[i], EFM32_MSC_WRITECMD, EFM32_MSC_WRITECMD_ERASEPAGE)}
LatchCmdIdx ==
  {i \in DOMAIN trace :
     IsW32(trace[i], EFM32_MSC_WRITECMD, EFM32_MSC_WRITECMD_LADDRIM)}
AddrWriteIdx ==
  {i \in DOMAIN trace : trace[i].kind = "w32" /\ trace[i].addr = EFM32_MSC_ADDRB}

\* the link was in error at a status read of the running call
ErrAtPoll == \E i \in DOMAIN trace : IsStatusRead(trace[i]) /\ trace[i].err

\* the link first went into error at a status read of the running call
FirstErrAtPoll ==
  \E i \in DOMAIN trace :
    /\ IsStatusRead(trace[i]) /\ trace[i].err
    /\ \A j \in 1 .. i - 1 : ~trace[j].err

\* the value with which the running function reports a link error
LinkErrorResult == IF op = "erase_all" THEN 0 ELSE -1

(***************************************************************************)
(* C1.  An erase of k pages from a page aligned address, with no link       *)
(* error, issues exactly k page erase commands; each comes right after one  *)
(* write of the page address to the address register and one latch address  *)
(* command; the addresses are addr, addr + page, ..., addr + (k-1) * page,  *)
(* in this order.                                                          *)
(***************************************************************************)
C1_ErasePagesInOrder ==
  (op = "erase" /\ pc = "done" /\ ~linkErr) =>
    LET bs == FlashRegion.blocksize
        k == call.len \div bs
    IN  /\ Cardinality(EraseCmdIdx) = k
        /\ Cardinality(LatchCmdIdx) = k
        /\ Cardinality(AddrWriteIdx) = k
        /\ \A i \in EraseCmdIdx :
             /\ i > 2
             /\ i - 1 \in LatchCmdIdx
             /\ IsW32(trace[i - 2], EFM32_MSC_ADDRB,
                      call.addr + Cardinality({j \in EraseCmdIdx : j < i}) * bs)

\* an erase of two pages from page 1 returned, after a busy status read
C1_Witness ==
  /\ op = "erase" /\ pc = "done" /\ ~linkErr
  /\ call.len = 2 * FlashRegion.blocksize
  /\ call.addr = FlashRegion.blocksize
  /\ \E i \in DOMAIN trace : IsStatusRead(trace[i]) /\ trace[i].val % 2 = 1

(***************************************************************************)
(* C2.  Whenever the link is in error at a status read of the erase busy    *)
(* loop, whatever the read returned, no register write follows that read    *)
(* and the erase returns -1.                                               *)
(***************************************************************************)
C2_ErrorAtAnyPollAborts ==
  op = "erase" =>
    \A i \in DOMAIN trace :
      (IsStatusRead(trace[i]) /\ trace[i].err) =>
        /\ \A j \in DOMAIN trace : j > i => trace[j].kind # "w32"
        /\ pc = "done" => ret = -1

(***************************************************************************)
(* C3.  A mass erase with no link fault makes exactly these transactions:   *)
(* write enable, unlock key to the mass erase lock register, erase main     *)
(* bank 0 command, one or more status reads of which only the last reads    *)
(* not busy, zero to the mass erase lock register; it returns true.         *)
(***************************************************************************)
C3_EraseAllSequence ==
  (op = "erase_all" /\ pc = "done" /\ ~linkErr) =>
    LET n == Len(trace)
    IN  /\ n >= 5
        /\ trace[1] = Tx("w32", EFM32_MSC_WRITECTRL, 1, << >>)
        /\ trace[2] = Tx("w32", EFM32_MSC_MASSLOCK, EFM32_MSC_MASSLOCK_LOCKKEY, << >>)
        /\ trace[3] = Tx("w32", EFM32_MSC_WRITECMD, EFM32_MSC_WRITECMD_ERASEMAIN0, << >>)
        /\ \A i \in 4 .. n - 1 :
             /\ IsStatusRead(trace[i])
             /\ (trace[i].val % 2 = 1) <=> (i < n - 1)
        /\ trace[n] = Tx("w32", EFM32_MSC_MASSLOCK, 0, << >>)
        /\ ret = 1
        /\ masslock = 0

\* a mass erase returned with no link fault after two busy status reads
C3_Witness ==
  /\ op = "erase_all" /\ pc = "done" /\ ~linkErr
  /\ Len(trace) = 7
  /\ trace[4].val = 1 /\ trace[6].val = 2

(***************************************************************************)
(* C4.  If the link first faults at a status read of the mass erase busy    *)
(* loop, the command returns false, the write of zero to the mass erase     *)
(* lock register is not issued and the register still holds the key.        *)
(***************************************************************************)
C4_FaultAtPollNeverRelocks ==
  (op = "erase_all" /\ pc = "done" /\ FirstErrAtPoll) =>
    /\ ret = 0
    /\ \A i \in DOMAIN trace : ~IsW32(trace[i], EFM32_MSC_MASSLOCK, 0)
    /\ masslock = EFM32_MSC_MASSLOCK_LOCKKEY

(***************************************************************************)
(* C5.  In the erase, the write and the mass erase, a transaction at which  *)
(* the link is in error is the last transaction of the call, and the call   *)
(* returns the link error.                                                 *)
(***************************************************************************)
C5_LinkErrorAbortsAtOnce ==
  op \in {"erase", "write", "erase_all"} =>
    \A i \in DOMAIN trace :
      trace[i].err =>
        /\ i = Len(trace)
        /\ pc = "done" => ret = LinkErrorResult

(***************************************************************************)
(* C9.  A write makes exactly three transactions: the stub to SRAM_BASE,    *)
(* the payload to the first multiple of 4 at or after the end of the stub,  *)
(* the start of the stub at SRAM_BASE with (dest, payload address, len, 0); *)
(* it returns what the stub runtime returned and writes no register.        *)
(***************************************************************************)
C9_WriteThreeSteps ==
  (op = "write" /\ pc = "done") =>
    /\ Len(trace) = 3
    /\ LET end == SRAM_BASE + 2 * Len(stub)
           buf == trace[2].addr
       IN  /\ trace[1].kind = "wblk" /\ trace[1].addr = SRAM_BASE
           /\ trace[1].data = stub /\ trace[1].val = 2 * Len(stub)
           /\ trace[2].kind = "wblk" /\ trace[2].data = src /\ trace[2].val = Len(src)
           /\ buf % 4 = 0 /\ buf >= end /\ buf < end + 4
           /\ trace[3].kind = "stub" /\ trace[3].addr = SRAM_BASE
           /\ trace[3].data = << call.addr, buf, Len(src), 0 >>
           /\ ret = trace[3].val
    /\ \A i \in DOMAIN trace : trace[i].kind # "w32"

\* a write of two bytes to page 1 returned LinkError; the stub is 6 bytes long
C9_Witness ==
  /\ op = "write" /\ pc = "done" /\ ret = -1
  /\ Len(stub) = 3 /\ Len(src) = 2 /\ call.addr = FlashRegion.blocksize

(***************************************************************************)
(* C10.  The erase returns 0 only with no length remaining and -1 only with *)
(* the link in error, and every erase that was called returns.             *)
(***************************************************************************)
C10_EraseReturns ==
  /\ []((op = "erase" /\ pc = "done") =>
          \/ ret = 0 /\ len = 0
          \/ ret = -1 /\ linkErr)
  /\ (op = "erase" /\ pc # "done") ~> (op = "erase" /\ pc = "done")

\* an erase returned -1 on its second page
C10_Witness ==
  /\ op = "erase" /\ pc = "done" /\ ret = -1
  /\ Cardinality(EraseCmdIdx) = 2

(***************************************************************************)
(* C6.  Every transaction of efm32_probe is a read, whether it returns      *)
(* true or false.                                                          *)
(***************************************************************************)
C6_ProbeOnlyReads ==
  op = "probe" => \A i \in DOMAIN trace : IsRead(trace[i]) /\ ~IsWrite(trace[i])

\* a radio part was identified with five reads
C6_Witness ==
  /\ op = "probe" /\ pc = "done" /\ ret = 1
  /\ Len(trace) = 5
  /\ efm32_devices[device].has_radio

(***************************************************************************)
(* C7.  For an accepted identification code: a family of the catalog is     *)
(* carried by exactly one entry, the one the lookup returns; for a family   *)
(* not in the catalog the lookup returns NULL and probe returns false.      *)
(***************************************************************************)
CatalogEntries(fam) ==
  {i \in DOMAIN efm32_devices : efm32_devices[i].family = fam}

C7_LookupUnique ==
  (op = "probe" /\ pc = "done" /\ IdcodeAccepted(regs.idcode)) =>
    IF CatalogEntries(regs.part_family) = {}
    THEN device = NULL /\ ret = 0
    ELSE CatalogEntries(regs.part_family) = {device} /\ ret = 1

(***************************************************************************)
(* C8.  After a successful probe with size registers F and R the session    *)
(* holds one RAM region at SRAM_BASE of R * 1024 bytes and one flash region *)
(* at 0 of F * 1024 bytes whose block size and buffer size are the page     *)
(* size of the matched entry; the products fit a C int; family 72 with      *)
(* F = 1024, R = 128 gives length 0x100000, block size 2048 and the driver  *)
(* string "EFM32GG".                                                       *)
(***************************************************************************)
C8_ProbeRegions ==
  (op = "probe" /\ pc = "done" /\ ret = 1) =>
    LET F == regs.mem_flash
        R == regs.mem_ram
    IN  /\ device \in CatalogEntries(regs.part_family)
        /\ F * 1024 <= INT_MAX /\ R * 1024 <= INT_MAX
        /\ t.ram = << [start |-> SRAM_BASE, length |-> R * 1024] >>
        /\ Len(t.flash) = 1
        /\ t.flash[1].start = 0
        /\ t.flash[1].length = F * 1024
        /\ t.flash[1].blocksize = efm32_devices[device].flash_page_size
        /\ t.flash[1].buf_size = efm32_devices[device].flash_page_size
        /\ (regs.part_family = 72 /\ F = 1024 /\ R = 128) =>
             /\ t.flash[1].length = 1048576
             /\ t.flash[1].blocksize = 2048
             /\ DriverString = efm32_devices[device].name
             /\ DriverString = "EFM32GG"

\* family 72 with F = 1024 and R = 128 was identified
C8_Witness ==
  /\ op = "probe" /\ pc = "done" /\ ret = 1
  /\ regs.part_family = 72 /\ regs.mem_flash = 1024 /\ regs.mem_ram = 128

\* a family with 512 byte pages and the largest size registers was identified
C8_WitnessLargest ==
  /\ op = "probe" /\ pc = "done" /\ ret = 1
  /\ regs.part_family = 71 /\ regs.mem_flash = 65535 /\ regs.mem_ram = 65535
(***************************************************************************)
(* C11.  In an erase called with a length that is not zero and not a        *)
(* multiple of the page size, the loop ends at the iteration that leaves    *)
(* the remaining length negative, and no page erase command is issued for   *)
(* a page that lies wholly beyond addr + length.                           *)
(***************************************************************************)
C11_LoopEndsAtNegative ==
  (op = "erase" /\ call.len % FlashRegion.blocksize # 0) =>
    /\ len < 0 => pc = "done"
    /\ \A i \in EraseCmdIdx :
         i > 2 /\ trace[i - 2].kind = "w32" => trace[i - 2].val < call.addr + call.len

(***************************************************************************)
(* C12.  A write of a payload of at most one page to a page aligned         *)
(* destination in erased flash, with no link error and a stub that returns  *)
(* Ok, followed by a read of the destination range, reads the payload, and  *)
(* the flash outside the destination range is unchanged.                   *)
(***************************************************************************)
C12_WriteReadRoundTrip ==
  (op = "write" /\ pc = "read" /\ ~linkErr /\ ret = 0) =>
    /\ trace[Len(trace)].kind = "rblk"
    /\ trace[Len(trace)].data = src
    /\ \A x \in DOMAIN mem :
         (x < SRAM_BASE /\ (x < call.addr \/ x >= call.addr + call.len)) =>
           mem[x] = ERASED

\* two bytes written to page 1 were read back
C12_Witness ==
  /\ op = "write" /\ pc = "read" /\ ~linkErr /\ ret = 0
  /\ call.addr = FlashRegion.blocksize
  /\ src = << 165, 0 >>
  /\ trace[4].data = << 165, 0 >>
  /\ mem[0] = ERASED

(***************************************************************************)
(* C13.  With H in EUI64_1 and L in EUI64_0 the serial command computes     *)
(* H * 2^32 + L, the digits of H followed by the digits of L; it makes      *)
(* exactly two 32-bit reads, of EUI64_1 and of EUI64_0, and no write.  For  *)
(* H = 0x12345678 and L = 0x9ABCDEF0 the number is 0x123456789ABCDEF0.      *)
(***************************************************************************)
C13_SerialReadsEui ==
  (op = "serial" /\ pc = "done") =>
    \E h \in EuiWords, l \in EuiWords :
      /\ mem = EuiWindow(h, l)
      /\ eui = << h[1], h[2], l[1], l[2] >>
      /\ Len(trace) = 2
      /\ \A i \in 1 .. 2 : trace[i].kind = "r32"
      /\ {trace[1].addr, trace[2].addr} = {EFM32_DI_EUI64_0, EFM32_DI_EUI64_1}
      /\ ret = 1

\* the serial command read 0x123456789ABCDEF0
C13_Witness ==
  /\ op = "serial" /\ pc = "done"
  /\ mem = EuiWindow(<< 4660, 22136 >>, << 39612, 57072 >>)
  /\ eui = << 4660, 22136, 39612, 57072 >>

(***************************************************************************)
(* C14.  Probe returns true only for an identification code 0x2BA01477 or  *)
(* 0x0BC11477 and a family of the catalog.  When it returns false the       *)
(* session is as before: no region, no command, the reset inhibit option    *)
(* not set, the driver string not set.  For another identification code it  *)
(* makes no read of target memory.                                         *)
(***************************************************************************)
C14_ProbeApplicability ==
  (op = "probe" /\ pc = "done") =>
    /\ ret = 1 =>
         /\ regs.idcode \in {731911287, 197203063}
         /\ \E i \in DOMAIN efm32_devices : efm32_devices[i].family = regs.part_family
    /\ ret = 0 =>
         /\ t = NewSession
         /\ t.ram = << >> /\ t.flash = << >> /\ t.commands = << >>
         /\ "CORTEXM_TOPT_INHIBIT_SRST" \notin t.target_options
         /\ t.driver = "NULL" /\ variant_string = ""
    /\ regs.idcode \notin {731911287, 197203063} => ret = 0 /\ trace = << >>

\* probe returned false for an accepted code and a family not in the catalog
C14_Witness ==
  /\ op = "probe" /\ pc = "done" /\ ret = 0
  /\ regs.idcode = 197203063
  /\ regs.part_family = 0
  /\ Len(trace) = 2

\* probe returned false for another code, for a family of the catalog
C14_WitnessOtherCode ==
  /\ op = "probe" /\ pc = "done" /\ ret = 0
  /\ regs.idcode \notin {731911287, 197203063}
  /\ regs.part_family = 72

(***************************************************************************)
(* C15.  A probe that returns true, run again on the same unchanged target, *)
(* identifies the same device and leaves the session as one run leaves it.  *)
(***************************************************************************)
C15_ProbeIdempotent ==
  (op = "probe" /\ pc = "done" /\ ret = 1) =>
    /\ device = FindDevice(1, regs.part_family)
    /\ t = ProbeSetup(NewSession, efm32_devices[device],
                      regs.mem_flash * 1024, regs.mem_ram * 1024)

(***************************************************************************)
(* C15, amended.  After every probe of the same unchanged target that      *)
(* returns true the device, the driver string and the options are those of  *)
(* one run, and each run adds one more copy of the same RAM region, flash   *)
(* region and command list: the lists hold as many equal entries as probes  *)
(* have returned true.                                                     *)
(***************************************************************************)
C15_ProbeAddsEqualEntries ==
  (op = "probe" /\ pc = "done" /\ ret = 1) =>
    LET one == ProbeSetup(NewSession, efm32_devices[device],
                          regs.mem_flash * 1024, regs.mem_ram * 1024)
    IN  /\ device = FindDevice(1, regs.part_family)
        /\ t.driver = one.driver /\ t.target_options = one.target_options
        /\ DriverString = VariantString(efm32_devices[device], regs.radio_opn)
        /\ Len(t.ram) \in 1 .. MaxProbes
        /\ Len(t.flash) = Len(t.ram) /\ Len(t.commands) = Len(t.ram)
        /\ \A i \in DOMAIN t.ram :
             t.ram[i] = one.ram[1] /\ t.flash[i] = one.flash[1]
             /\ t.commands[i] = one.commands[1]

\* the second probe of a target returned true
C15_Witness ==
  /\ op = "probe" /\ pc = "done" /\ ret = 1
  /\ Len(t.ram) = 2 /\ Len(t.flash) = 2

(***************************************************************************)
(* C16.  No state is shared between sessions: once a session is            *)
(* identified, its driver string is the one of its own target, whatever     *)
(* probes of another target have returned since.                           *)
(***************************************************************************)
C16_SessionsIndependent ==
  t.driver = "variant_string" =>
    DriverString =
      VariantString(efm32_devices[FindDevice(1, regs.part_family)], regs.radio_opn)

(***************************************************************************)
(* C17.  Every register the erase and the mass erase access lies at the     *)
(* msc_offset of the catalog entry of the device plus the offset of the     *)
(* register: 0x008, 0x00c, 0x010, 0x01c or 0x054.                           *)
(***************************************************************************)
C17_RegistersAtCatalogBase ==
  op \in {"erase", "erase_all"} =>
    \A i \in DOMAIN trace :
      trace[i].kind \in {"w32", "r32"} =>
        trace[i].addr - efm32_devices[device].msc_offset \in {8, 12, 16, 28, 84}

(***************************************************************************)
(* C18.  The length of every flash region a probe registers is a multiple   *)
(* of its block size, for every page size of the catalog and every value F  *)
(* of the flash size register.                                             *)
(***************************************************************************)
C18_LengthMultipleOfPage ==
  (op = "probe" /\ pc = "done" /\ ret = 1) =>
    \A i \in DOMAIN t.flash : t.flash[i].length % t.flash[i].blocksize = 0

(***************************************************************************)
(* C18, amended.  The length of every flash region a probe registers is     *)
(* F * 1024, a multiple of 1024: it is a multiple of a block size of 512 or *)
(* 1024 for every F, and of a block size of 2048 exactly when F is even.    *)
(***************************************************************************)
C18_LengthMultipleOfKiB ==
  (op = "probe" /\ pc = "done" /\ ret = 1) =>
    \A i \in DOMAIN t.flash :
      LET f == t.flash[i]
      IN  /\ f.length = regs.mem_flash * 1024
          /\ f.length % 1024 = 0
          /\ f.blocksize \in {512, 1024, 2048}
          /\ f.blocksize \in {512, 1024} => f.length % f.blocksize = 0
          /\ f.blocksize = 2048 => (f.length % 2048 = 0 <=> regs.mem_flash % 2 = 0)

\* a region of 2048 byte pages was registered for an odd F
C18_Witness ==
  /\ op = "probe" /\ pc = "done" /\ ret = 1
  /\ regs.mem_flash = 65535
  /\ t.flash[1].blocksize = 2048
  /\ t.flash[1].length % 2048 = 1024

\* positions in trace of the writes of the write control register
WriteCtrlIdx ==
  {i \in DOMAIN trace : trace[i].kind = "w32" /\ trace[i].addr = EFM32_MSC_WRITECTRL}

(***************************************************************************)
(* C19.  The write enable is issued in every page iteration: an erase of k  *)
(* pages that returns with no link error has written the write control      *)
(* register k times, and an erase of length 0 has made no transaction.      *)
(***************************************************************************)
C19_WriteEnablePerPage ==
  (op = "erase" /\ pc = "done" /\ ~linkErr) =>
    /\ Cardinality(WriteCtrlIdx) = call.len \div FlashRegion.blocksize
    /\ call.len = 0 => trace = << >>

(***************************************************************************)
(* C19, amended.  The write enable is issued once per call, before the      *)
(* loop: in every erase, of any number of pages, the first transaction is   *)
(* the write of 1 to the write control register and no other transaction    *)
(* writes that register; an erase of length 0 makes this one transaction.   *)
(***************************************************************************)
C19_WriteEnableOncePerCall ==
  (op = "erase" /\ pc # "e_wren") =>
    /\ WriteCtrlIdx = {1}
    /\ IsW32(trace[1], EFM32_MSC_WRITECTRL, 1)
    /\ (call.len = 0 => pc = "done" /\ Len(trace) = 1)

\* an erase of two pages returned with one write of the write control register
C19_Witness ==
  /\ op = "erase" /\ pc = "done" /\ ~linkErr
  /\ call.len = 2 * FlashRegion.blocksize
  /\ Cardinality(EraseCmdIdx) = 2
  /\ Cardinality(WriteCtrlIdx) = 1

\* an erase of length 0 returned after one transaction
C19_WitnessEmpty ==
  /\ op = "erase" /\ pc = "done" /\ call.len = 0 /\ Len(trace) = 1

(***************************************************************************)
(* C20.  Nothing locks the payload scratch.  On a link that does not fault, *)
(* when the calls of the write are serialized, the scratch holds, at the    *)
(* start of the stub, the payload of the call that starts it.  (That        *)
(* interleaved calls can start the stub with the destination and length of  *)
(* one call over the payload of the other is the reachable state            *)
(* C20_Witness.)                                                           *)
(***************************************************************************)
C20_SerializedScratchIsOwn ==
  \A c \in Callers :
    (writers[c].pc = "done" /\ ~writers[c].overlap) =>
      /\ writers[c].ran.dest = writers[c].dest
      /\ writers[c].ran.len = Len(writers[c].src)
      /\ writers[c].ran.scratch = writers[c].src

\* call 1 started the stub with its destination and length while the
\* scratch held the payload of call 2, on a link with no error
C20_Witness ==
  /\ writers[1].pc = "done" /\ writers[1].overlap
  /\ writers[1].ran.dest = writers[1].dest
  /\ writers[1].ran.len = Len(writers[1].src)
  /\ writers[1].src = << 165, 0 >>
  /\ writers[2].src = << 0, 165 >>
  /\ writers[1].dest # writers[2].dest
  /\ writers[1].ran.scratch = writers[2].src

====
